---- MODULE Spec2Model ----
(***************************************************************************)
(* Model of the transform stage of the video game ETL                      *)
(* (src/tranform/transform.py, class DataTransformer).                     *)
(*                                                                         *)
(* Text is a sequence of one-character strings.  A DataFrame is a sequence *)
(* of rows in index order.  A rating is an integer number of hundredths    *)
(* (450 is 4.5); a mean is an exact reduced fraction of hundredths.        *)
(***************************************************************************)
EXTENDS Integers, Sequences, FiniteSets, TLC

VARIABLES
    raw,        \* the caller's DataFrame handed to DataTransformer(df)
    df,         \* self.df of the transformer (<<>> before construction)
    built,      \* TRUE once DataTransformer.__init__ has returned
    op,         \* name of the last method called on the transformer
    arg,        \* its argument
    ret,        \* its return value (NoValue when it raised)
    raised,     \* TRUE when the last call ended in an exception
    results,    \* VideoGameAnalyzer.results, a dict from key to value
    pin,        \* input of the last _convert_plays_to_numeric call
    pout,       \* its return value
    pdone,      \* TRUE once _convert_plays_to_numeric has returned
    csv,        \* the source file: whether it is there, and its table
    trace,      \* the steps started by the last pipeline or main() run
    failed,     \* the step of that run that raised, "none" when none did
    code,       \* exit code of the last main(), NotReturned before
    sorted,     \* the frames sort_values has ordered, and the order it gave
    runs        \* what each transform_and_analyze so far has ended in

vars == <<raw, df, built, op, arg, ret, raised, results, pin, pout, pdone,
          csv, trace, failed, code, sorted, runs>>

-----------------------------------------------------------------------------
(* Bounds *)

MaxRows == 3        \* rows of a dataset
MaxTopN == 4        \* largest top_n passed to get_top_genres
MaxLen == 3         \* characters of a raw Plays or Rating string
MaxGenresLen == 5   \* characters of a raw Genres string taken from all texts
MaxRuns == 2        \* transform_and_analyze runs over the same rows

-----------------------------------------------------------------------------
(* Cell values: NaN (absent), a string, or a number *)

NaN == [k |-> "nan", s |-> <<>>, v |-> 0]
Str(chars) == [k |-> "str", s |-> chars, v |-> 0]
Num(n) == [k |-> "num", s |-> <<>>, v |-> n]

isna(x) == x.k = "nan"

NoValue == [k |-> "none"]

-----------------------------------------------------------------------------
(* Python text primitives *)

Digits == <<"0", "1", "2", "3", "4", "5", "6", "7", "8", "9">>

IsDigit(c) == \E i \in 1..10 : Digits[i] = c

DigitVal(c) == (CHOOSE i \in 1..10 : Digits[i] = c) - 1

IsSpace(c) == c = " "

RECURSIVE lstrip(_)
lstrip(s) ==
    IF s # <<>> /\ IsSpace(Head(s)) THEN lstrip(Tail(s)) ELSE s

RECURSIVE rstrip(_)
rstrip(s) ==
    IF s # <<>> /\ IsSpace(s[Len(s)]) THEN rstrip(SubSeq(s, 1, Len(s) - 1)) ELSE s

strip(s) == rstrip(lstrip(s))

Contains(s, c) == \E i \in 1..Len(s) : s[i] = c

(* str.replace(c, '') *)
Remove(s, c) == SelectSeq(s, LAMBDA x : x # c)

RECURSIVE DigitsValue(_)
DigitsValue(s) ==
    IF s = <<>> THEN 0
    ELSE 10 * DigitsValue(SubSeq(s, 1, Len(s) - 1)) + DigitVal(s[Len(s)])

AllDigits(s) == \A i \in 1..Len(s) : IsDigit(s[i])

RECURSIVE Pow10(_)
Pow10(n) == IF n = 0 THEN 1 ELSE 10 * Pow10(n - 1)

HasSign(s) == s # <<>> /\ Head(s) \in {"+", "-"}

Unsigned(s) == IF HasSign(s) THEN Tail(s) ELSE s

(* str(n) for an integer n >= 0 *)
RECURSIVE NatStr(_)
NatStr(n) ==
    IF n < 10 THEN <<Digits[n + 1]>>
    ELSE NatStr(n \div 10) \o <<Digits[(n % 10) + 1]>>

IntStr(n) == IF n < 0 THEN <<"-">> \o NatStr(-n) ELSE NatStr(n)

(* str(x) of a cell that is not NaN *)
PyStr(x) == IF x.k = "str" THEN x.s ELSE IntStr(x.v)

(* int(text): surrounding whitespace, an optional sign, then digits only.   *)
(* ok = FALSE stands for ValueError.                                       *)
PyInt(text) ==
    LET t == strip(text)
        body == Unsigned(t)
    IN  IF body # <<>> /\ AllDigits(body)
        THEN [ok |-> TRUE,
              v |-> IF HasSign(t) /\ Head(t) = "-" THEN -DigitsValue(body)
                    ELSE DigitsValue(body)]
        ELSE [ok |-> FALSE, v |-> 0]

(* float(text): surrounding whitespace, an optional sign, digits with an   *)
(* optional point ("5", "5.", ".5", "1.5").  The value is                  *)
(* sign * mant / 10^scale, kept exact.                                      *)
PyFloat(text) ==
    LET t == strip(text)
        body == Unsigned(t)
        dots == {i \in 1..Len(body) : body[i] = "."}
        p == IF dots = {} THEN Len(body) + 1 ELSE CHOOSE i \in dots : TRUE
        ip == SubSeq(body, 1, p - 1)
        fp == SubSeq(body, p + 1, Len(body))
        good == /\ Cardinality(dots) <= 1
                /\ AllDigits(ip) /\ AllDigits(fp)
                /\ Len(ip) + Len(fp) > 0
    IN  IF good
        THEN [ok |-> TRUE,
              neg |-> HasSign(t) /\ Head(t) = "-",
              mant |-> DigitsValue(ip \o fp),
              scale |-> Len(fp)]
        ELSE [ok |-> FALSE, neg |-> FALSE, mant |-> 0, scale |-> 0]

(* int(f * 1000): the product truncated toward zero.  For the numbers of   *)
(* at most three characters read here the binary product is the exact one. *)
TimesThousandTrunc(f) ==
    LET q == (f.mant * 1000) \div Pow10(f.scale)
    IN  IF f.neg THEN -q ELSE q

-----------------------------------------------------------------------------
(* DataTransformer._convert_plays_to_numeric *)

_convert_plays_ignore_K(plays_str) ==
    IF isna(plays_str) THEN 0
    ELSE LET t == strip(PyStr(plays_str))
         IN  IF Contains(t, "K")
             THEN LET f == PyFloat(Remove(t, "K"))
                  IN  IF f.ok THEN TimesThousandTrunc(f) \div 1000 ELSE 0
             ELSE LET n == PyInt(t)
                  IN  IF n.ok THEN n.v ELSE 0

_convert_plays_to_numeric(plays_str) ==
    IF isna(plays_str) THEN 0
    ELSE LET t == strip(PyStr(plays_str))
         IN  IF Contains(t, "K")
             THEN LET f == PyFloat(Remove(t, "K"))
                  IN  IF f.ok THEN TimesThousandTrunc(f) ELSE 0
             ELSE LET n == PyInt(t)
                  IN  IF n.ok THEN n.v ELSE 0

-----------------------------------------------------------------------------
(* pd.to_numeric(column, errors='coerce') on one cell: a number stays, a   *)
(* numeric string is converted, anything else becomes NaN.                 *)

to_numeric(x) ==
    IF x.k = "str"
    THEN LET f == PyFloat(x.s)
             h == (f.mant * 100) \div Pow10(f.scale)
         IN  IF f.ok THEN Num(IF f.neg THEN -h ELSE h) ELSE NaN
    ELSE x

-----------------------------------------------------------------------------
(* DataTransformer._parse_genres: ast.literal_eval of the text, kept when  *)
(* it is a list.  The literals read are string literals (adjacent ones     *)
(* joined into one), decimal integers, list displays of literals (nested,  *)
(* blanks between tokens, a trailing comma) and tuples written as literals *)
(* separated by commas.  Escapes in strings, parentheses, braces, signs    *)
(* and floats are not among the texts modelled.                            *)

(* body of x = v, with v worked out once *)
With(v, body(_)) == CHOOSE r \in {body(x) : x \in {v}} : TRUE

IsQuote(c) == c \in {"'", "\""}

(* position of the first c at or after i, 0 when there is none *)
RECURSIVE Find(_, _, _)
Find(s, c, i) ==
    IF i > Len(s) THEN 0
    ELSE IF s[i] = c THEN i
    ELSE Find(s, c, i + 1)

(* position of the first run c c c at or after i, 0 when there is none *)
RECURSIVE FindTriple(_, _, _)
FindTriple(s, c, i) ==
    IF i + 2 > Len(s) THEN 0
    ELSE IF s[i] = c /\ s[i + 1] = c /\ s[i + 2] = c THEN i
    ELSE FindTriple(s, c, i + 1)

(* the string literal opening at the quote s[i]: where it ends and its     *)
(* text; end = 0 when it is not closed.  Three quotes open a literal that  *)
(* three quotes close.                                                     *)
StringLiteral(s, i) ==
    IF i + 2 <= Len(s) /\ s[i + 1] = s[i] /\ s[i + 2] = s[i]
    THEN LET j == FindTriple(s, s[i], i + 3)
         IN  [end |-> IF j = 0 THEN 0 ELSE j + 2, text |-> SubSeq(s, i + 3, j - 1)]
    ELSE LET j == Find(s, s[i], i + 1)
         IN  [end |-> j, text |-> SubSeq(s, i + 1, j - 1)]

(* first position at or after i that is not a blank, Len(s) + 1 if none *)
RECURSIVE SkipBlanks(_, _)
SkipBlanks(s, i) ==
    IF i <= Len(s) /\ IsSpace(s[i]) THEN SkipBlanks(s, i + 1) ELSE i

(* adjacent string literals from the quote s[i] are one string: where the  *)
(* last one ends and the joined text; end = 0 when one is not closed       *)
RECURSIVE StringRun(_, _, _)
StringRun(s, i, acc) ==
    With(StringLiteral(s, i), LAMBDA lit :
        IF lit.end = 0 THEN [end |-> 0, text |-> <<>>]
        ELSE With(SkipBlanks(s, lit.end + 1), LAMBDA k :
                IF k <= Len(s) /\ IsQuote(s[k])
                THEN StringRun(s, k, acc \o lit.text)
                ELSE [end |-> lit.end, text |-> acc \o lit.text]))

(* last position of the run of digits that starts at i *)
RECURSIVE DigitsEnd(_, _)
DigitsEnd(s, i) ==
    IF i + 1 <= Len(s) /\ IsDigit(s[i + 1]) THEN DigitsEnd(s, i + 1) ELSE i

(* a decimal integer literal has no leading zero unless it is all zeros *)
IsIntLiteral(d) == Len(d) = 1 \/ Head(d) # "0" \/ \A j \in 1..Len(d) : d[j] = "0"

(* Elements of an evaluated list.  A str is its text, a sequence of        *)
(* one-character strings.  An int and a list are sequences that open with  *)
(* a tag no text can open with, so that values of different types differ.  *)
IntElem(d) == <<"#int">> \o (IF Head(d) = "0" THEN <<"0">> ELSE d)

IsInt(e) == e # <<>> /\ Head(e) = "#int"

IsList(e) == e # <<>> /\ Head(e) = "#["

IsString(e) == ~IsInt(e) /\ ~IsList(e)

RECURSIVE JoinElems(_)
JoinElems(items) ==
    IF items = <<>> THEN <<>>
    ELSE LET e == Head(items)
         IN  (IF IsString(e) THEN <<"#s">> \o e ELSE e)
                 \o <<"#,">> \o JoinElems(Tail(items))

ListElem(items) == <<"#[">> \o JoinElems(items) \o <<"#]">>

(* only immutable values hash: a list as a dict key or a set member is a   *)
(* TypeError                                                               *)
Hashable(e) == ~IsList(e)

Malformed == [ok |-> FALSE, end |-> 0, kind |-> "none", e |-> <<>>, items |-> <<>>]

BadItems == [ok |-> FALSE, end |-> 0, val |-> <<>>]

(* ParseAtom: the literal that starts at s[i], a string, an integer or a   *)
(* list display; a name or any other character is no literal.              *)
(* ParseItems: comma-separated literals up to the closing bracket of a     *)
(* list (inlist), or up to the end of the text for a tuple written without *)
(* parentheses.  st: "open" after '[', "item" after a literal, "comma"     *)
(* after ','.                                                              *)
RECURSIVE ParseAtom(_, _)
RECURSIVE ParseItems(_, _, _, _, _)
ParseAtom(s, i) ==
    IF i > Len(s) THEN Malformed
    ELSE IF IsQuote(s[i])
         THEN With(StringRun(s, i, <<>>), LAMBDA r :
                IF r.end = 0 THEN Malformed
                ELSE [ok |-> TRUE, end |-> r.end, kind |-> "str",
                      e |-> r.text, items |-> <<>>])
    ELSE IF IsDigit(s[i])
         THEN LET j == DigitsEnd(s, i)
                  d == SubSeq(s, i, j)
              IN  IF IsIntLiteral(d)
                  THEN [ok |-> TRUE, end |-> j, kind |-> "int",
                        e |-> IntElem(d), items |-> <<>>]
                  ELSE Malformed
    ELSE IF s[i] = "["
         THEN With(ParseItems(s, i + 1, "open", <<>>, TRUE), LAMBDA r :
                IF r.ok
                THEN [ok |-> TRUE, end |-> r.end, kind |-> "list",
                      e |-> ListElem(r.val), items |-> r.val]
                ELSE Malformed)
    ELSE Malformed

ParseItems(s, i, st, acc, inlist) ==
    IF i > Len(s) THEN [ok |-> ~inlist, end |-> Len(s), val |-> acc]
    ELSE IF IsSpace(s[i]) THEN ParseItems(s, i + 1, st, acc, inlist)
    ELSE IF s[i] = "]"
         THEN IF inlist THEN [ok |-> TRUE, end |-> i, val |-> acc]
              ELSE BadItems
    ELSE IF s[i] = ","
         THEN IF st = "item" THEN ParseItems(s, i + 1, "comma", acc, inlist)
              ELSE BadItems
    ELSE IF st = "item" THEN BadItems
    ELSE With(ParseAtom(s, i), LAMBDA a :
            IF a.ok
            THEN ParseItems(s, a.end + 1, "item", Append(acc, a.e), inlist)
            ELSE BadItems)

(* ast.literal_eval(text): whether the text is a literal, of which type,   *)
(* and its elements (the value itself for a str or an int)                 *)
NoLiteral == [ok |-> FALSE, kind |-> "none", val |-> <<>>]

literal_eval(text) ==
    With(lstrip(text), LAMBDA t :
    With(ParseAtom(t, 1), LAMBDA a :
    With(SkipBlanks(t, a.end + 1), LAMBDA k :
        IF ~a.ok THEN NoLiteral
        ELSE IF k > Len(t)
             THEN [ok |-> TRUE, kind |-> a.kind,
                   val |-> IF a.kind = "list" THEN a.items ELSE <<a.e>>]
        ELSE IF t[k] = ","
             THEN With(ParseItems(t, k + 1, "comma", <<a.e>>, FALSE), LAMBDA r :
                    IF r.ok
                    THEN [ok |-> TRUE, kind |-> "tuple", val |-> r.val]
                    ELSE NoLiteral)
        ELSE NoLiteral)))

_parse_genres_any_literal(genres_str) ==
    IF isna(genres_str) THEN <<>>
    ELSE IF genres_str.k # "str" THEN <<>>
    ELSE With(literal_eval(genres_str.s), LAMBDA r :
            IF r.ok THEN r.val ELSE <<>>)

_parse_genres(genres_str) ==
    IF isna(genres_str) THEN <<>>
    ELSE IF genres_str.k # "str" THEN <<>>
    ELSE With(literal_eval(genres_str.s), LAMBDA r :
            IF r.ok /\ r.kind = "list" THEN r.val ELSE <<>>)

-----------------------------------------------------------------------------
(* DataTransformer._clean_data, one row *)

CleanRow(row) ==
    [Title |-> row.Title,
     Plays |-> row.Plays,
     Rating |-> to_numeric(row.Rating),
     Genres |-> row.Genres,
     Platforms |-> row.Platforms,
     Release_Date |-> row.Release_Date,
     Plays_numeric |-> _convert_plays_to_numeric(row.Plays),
     Genres_list |-> _parse_genres(row.Genres)]

_clean_data(frame) == [i \in 1..Len(frame) |-> CleanRow(frame[i])]

-----------------------------------------------------------------------------
(* Results of a call: a returned value or an exception *)

Return(v) == [raised |-> FALSE, val |-> v]

Raise == [raised |-> TRUE, val |-> NoValue]

-----------------------------------------------------------------------------
(* pandas and Python primitives used by the analyses *)

Min2(a, b) == IF a <= b THEN a ELSE b

RECURSIVE SeqSum(_)
SeqSum(s) == IF s = <<>> THEN 0 ELSE Head(s) + SeqSum(Tail(s))

RECURSIVE GCD(_, _)
GCD(a, b) == IF b = 0 THEN a ELSE GCD(b, a % b)

Abs(n) == IF n < 0 THEN -n ELSE n

(* an exact fraction num/den of hundredths, or NaN *)
NaNFrac == [nan |-> TRUE, num |-> 0, den |-> 1]

Frac(n, d) ==
    LET g == GCD(Abs(n), d)
    IN  [nan |-> FALSE, num |-> n \div g, den |-> d \div g]

Column(frame, name) == [i \in 1..Len(frame) |-> frame[i][name]]

(* Series.notna() selection, as a sequence of the numbers present *)
Present(cells) ==
    LET kept == SelectSeq(cells, LAMBDA x : ~isna(x))
    IN  [i \in 1..Len(kept) |-> kept[i].v]

(* Series.mean(), skipping NaN; NaN when nothing is present *)
mean(cells) ==
    LET vals == Present(cells)
    IN  IF vals = <<>> THEN NaNFrac ELSE Frac(SeqSum(vals), Len(vals))

(* Series.max() and Series.min(), skipping NaN *)
max(cells) ==
    LET vals == Present(cells)
    IN  IF vals = <<>> THEN NaN
        ELSE Num(CHOOSE m \in {vals[i] : i \in 1..Len(vals)} :
                    \A i \in 1..Len(vals) : vals[i] <= m)

min(cells) ==
    LET vals == Present(cells)
    IN  IF vals = <<>> THEN NaN
        ELSE Num(CHOOSE m \in {vals[i] : i \in 1..Len(vals)} :
                    \A i \in 1..Len(vals) : vals[i] >= m)

(* Series.idxmax() of an integer column: the first position of the         *)
(* largest value; 0 stands for the ValueError on an empty column.          *)
idxmax_last(col) ==
    IF col = <<>> THEN 0
    ELSE CHOOSE i \in 1..Len(col) :
            /\ \A j \in 1..Len(col) : col[j] <= col[i]
            /\ \A j \in (i + 1)..Len(col) : col[j] < col[i]

idxmax(col) ==
    IF col = <<>> THEN 0
    ELSE CHOOSE i \in 1..Len(col) :
            /\ \A j \in 1..Len(col) : col[j] <= col[i]
            /\ \A j \in 1..(i - 1) : col[j] < col[i]

(* DataFrame.head(n), n >= 0 *)
head(rows, n) == SubSeq(rows, 1, Min2(n, Len(rows)))

(* every ordering of the rows of a table *)
Arrangements(rows) ==
    {[i \in 1..Len(rows) |-> rows[p[i]]] : p \in Permutations(1..Len(rows))}

-----------------------------------------------------------------------------
(* DataTransformer.get_most_played_game.  Row labels are unique, as in a    *)
(* table read with its running index, so df.loc[label] is one row.         *)

get_most_played_game(frame) ==
    LET i == idxmax(Column(frame, "Plays_numeric"))
        most_played == frame[i]
    IN  IF i = 0 THEN Raise
        ELSE Return([title |-> most_played.Title,
                     plays |-> most_played.Plays,
                     plays_numeric |-> most_played.Plays_numeric,
                     rating |-> most_played.Rating,
                     genres |-> most_played.Genres,
                     platforms |-> most_played.Platforms,
                     release_date |-> most_played.Release_Date])

-----------------------------------------------------------------------------
(* DataTransformer.get_top_genres *)

(* the (genre, plays) tuples of one row, one per entry of its genre list *)
RowGenrePlays(row) ==
    [j \in 1..Len(row.Genres_list) |->
        [Genre |-> row.Genres_list[j], plays |-> row.Plays_numeric]]

RECURSIVE genre_plays(_)
genre_plays(frame) ==
    IF frame = <<>> THEN <<>>
    ELSE RowGenrePlays(Head(frame)) \o genre_plays(Tail(frame))

(* genre_dict as its items in insertion order *)
DictAddOverwrite(d, genre, plays) ==
    IF \E i \in 1..Len(d) : d[i].Genre = genre
    THEN [i \in 1..Len(d) |->
            IF d[i].Genre = genre
            THEN [Genre |-> genre, Total_Plays |-> plays]
            ELSE d[i]]
    ELSE Append(d, [Genre |-> genre, Total_Plays |-> plays])

DictAdd(d, genre, plays) ==
    IF \E i \in 1..Len(d) : d[i].Genre = genre
    THEN [i \in 1..Len(d) |->
            IF d[i].Genre = genre
            THEN [Genre |-> genre, Total_Plays |-> d[i].Total_Plays + plays]
            ELSE d[i]]
    ELSE Append(d, [Genre |-> genre, Total_Plays |-> 0 + plays])

RECURSIVE genre_dict(_)
genre_dict(pairs) ==
    IF pairs = <<>> THEN <<>>
    ELSE LET last == pairs[Len(pairs)]
         IN  DictAdd(genre_dict(SubSeq(pairs, 1, Len(pairs) - 1)),
                     last.Genre, last.plays)

(* sort_values('Total_Plays', ascending=False): the sort has no tiebreak   *)
(* and is not stable, so rows of equal Total_Plays may come in any order.  *)
sort_Total_Plays_ascending(rows) ==
    {s \in Arrangements(rows) :
        \A i, j \in 1..Len(s) : i < j => s[i].Total_Plays <= s[j].Total_Plays}

sort_Total_Plays(rows) ==
    {s \in Arrangements(rows) :
        \A i, j \in 1..Len(s) : i < j => s[i].Total_Plays >= s[j].Total_Plays}

(* the set of results the call can return; a genre that does not hash     *)
(* ends the grouping loop in a TypeError                                   *)
get_top_genres(frame, top_n) ==
    LET pairs == genre_plays(frame)
    IN  IF \E j \in 1..Len(pairs) : ~Hashable(pairs[j].Genre)
        THEN {Raise}
        ELSE {Return(head(s, top_n)) : s \in sort_Total_Plays(genre_dict(pairs))}

-----------------------------------------------------------------------------
(* DataTransformer.get_genre_rating_summary *)

InList(genre, list) == \E j \in 1..Len(list) : list[j] = genre

(* self.df[self.df['Genres_list'].apply(lambda x: genre in x)] *)
genre_games(frame, genre) ==
    SelectSeq(frame, LAMBDA row : InList(genre, row.Genres_list))

(* genre_games[genre_games['Rating'].notna()] *)
valid_ratings(games) == SelectSeq(games, LAMBDA row : ~isna(row.Rating))

game_count_rated(games) == Len(valid_ratings(games))

game_count(games) == Len(games)

(* the rows appended for one genre of the loop *)
GenreRowAlways(frame, genre) ==
    LET games == genre_games(frame, genre)
    IN  <<[Genre |-> genre,
           Average_Rating |-> mean(Column(valid_ratings(games), "Rating")),
           Game_Count |-> game_count(games)]>>

GenreRow(frame, genre) ==
    LET games == genre_games(frame, genre)
        valid == valid_ratings(games)
    IN  IF Len(valid) > 0
        THEN <<[Genre |-> genre,
                Average_Rating |-> mean(Column(valid, "Rating")),
                Game_Count |-> game_count(games)]>>
        ELSE <<>>

RECURSIVE genre_avg_ratings(_, _)
genre_avg_ratings(frame, top_genres_list) ==
    IF top_genres_list = <<>> THEN <<>>
    ELSE GenreRow(frame, Head(top_genres_list))
            \o genre_avg_ratings(frame, Tail(top_genres_list))

(* a >= b for means; NaN sorts last *)
FracGE(a, b) ==
    IF b.nan THEN TRUE
    ELSE IF a.nan THEN FALSE
    ELSE a.num * b.den >= b.num * a.den

sort_Average_Rating_ascending(rows) ==
    {s \in Arrangements(rows) :
        \A i, j \in 1..Len(s) :
            i < j => FracGE(s[j].Average_Rating, s[i].Average_Rating)}

sort_Average_Rating(rows) ==
    {s \in Arrangements(rows) :
        \A i, j \in 1..Len(s) :
            i < j => FracGE(s[i].Average_Rating, s[j].Average_Rating)}

(* pd.DataFrame([]) has no column 'Average_Rating': sort_values raises     *)
(* KeyError when no genre was appended.                                    *)
get_genre_rating_summary(frame, top_genres_list) ==
    LET rows == genre_avg_ratings(frame, top_genres_list)
    IN  IF rows = <<>> THEN {Raise}
        ELSE {Return(s) : s \in sort_Average_Rating(rows)}

-----------------------------------------------------------------------------
(* DataTransformer.get_top_rated_by_genre *)

present_ratings(rows) == SelectSeq(rows, LAMBDA row : ~isna(row.Rating))

absent_ratings(rows) == SelectSeq(rows, LAMBDA row : isna(row.Rating))

(* sort_values(ascending=False) of the Rating column: NaN rows last, in    *)
(* their order; the sort is not stable, so rows of equal Rating may come   *)
(* in any order.                                                           *)
sort_Rating(rows) ==
    {s \o absent_ratings(rows) :
        s \in {a \in Arrangements(present_ratings(rows)) :
                \A i, j \in 1..Len(a) : i < j => a[i].Rating.v >= a[j].Rating.v}}

(* the stable (mergesort) descending order: equal ratings in row order *)
mergesort_Rating(rows) ==
    LET p == CHOOSE q \in Permutations(1..Len(rows)) :
                \A i, j \in 1..Len(rows) :
                    i < j =>
                        \/ rows[q[i]].Rating.v > rows[q[j]].Rating.v
                        \/ /\ rows[q[i]].Rating.v = rows[q[j]].Rating.v
                           /\ q[i] < q[j]
    IN  [i \in 1..Len(rows) |-> rows[p[i]]]

(* DataFrame.nlargest(n, 'Rating'), keep='first'.  Nothing for n <= 0.     *)
(* When n reaches the number of rows the result is                         *)
(* sort_values(ascending=False).head(n).  Otherwise the n largest ratings  *)
(* are taken with a stable sort and NaN rows fill what is left of n.       *)
nlargest(rows, n) ==
    IF n <= 0 THEN {<<>>}
    ELSE IF n >= Len(rows) THEN {head(s, n) : s \in sort_Rating(rows)}
    ELSE LET dropped == present_ratings(rows)
         IN  {head(head(mergesort_Rating(dropped), Min2(n, Len(dropped)))
                        \o absent_ratings(rows), n)}

(* the dicts appended for one genre of the loop *)
top_games_rows(genre, top_games) ==
    [k \in 1..Len(top_games) |->
        [Genre |-> genre,
         Title |-> top_games[k].Title,
         Rating |-> top_games[k].Rating,
         Plays |-> top_games[k].Plays_numeric]]

RECURSIVE genre_ratings(_, _, _)
genre_ratings(frame, genres, top_n) ==
    IF genres = <<>> THEN {<<>>}
    ELSE {top_games_rows(Head(genres), top_games) \o rest :
            top_games \in nlargest(genre_games(frame, Head(genres)), top_n),
            rest \in genre_ratings(frame, Tail(genres), top_n)}

(* the set of results the call can return.  Over a table of no rows the    *)
(* selection by the empty mask keeps no column, and nlargest finds no      *)
(* Rating (KeyError).                                                      *)
get_top_rated_by_genre(frame, top_genres_list, top_n) ==
    IF frame = <<>> /\ top_genres_list # <<>> THEN {Raise}
    ELSE {Return(r) : r \in genre_ratings(frame, top_genres_list, top_n)}

-----------------------------------------------------------------------------
(* DataTransformer.get_summary_statistics *)

RECURSIVE Flatten(_)
Flatten(lists) ==
    IF lists = <<>> THEN <<>> ELSE Head(lists) \o Flatten(Tail(lists))

unique_genres_entries(frame) ==
    Len(Flatten(Column(frame, "Genres_list")))

unique_genres(frame) ==
    LET all == Flatten(Column(frame, "Genres_list"))
    IN  Cardinality({all[i] : i \in 1..Len(all)})

(* set(...) of the genres is a TypeError when one of them does not hash *)
get_summary_statistics(frame) ==
    LET all == Flatten(Column(frame, "Genres_list"))
    IN  IF \E j \in 1..Len(all) : ~Hashable(all[j])
        THEN Raise
        ELSE Return([total_games |-> Len(frame),
                     total_plays |-> SeqSum(Column(frame, "Plays_numeric")),
                     average_rating |-> mean(Column(frame, "Rating")),
                     max_rating |-> max(Column(frame, "Rating")),
                     min_rating |-> min(Column(frame, "Rating")),
                     unique_genres |-> unique_genres(frame)])

-----------------------------------------------------------------------------
(* VideoGameAnalyzer.transform_and_analyze: the outcomes of one call *)

TopN == 20

DictSet(d, key, value) ==
    [k \in DOMAIN d \cup {key} |-> IF k = key THEN value ELSE d[k]]

Failed(name, a, res) ==
    [op |-> name, arg |-> a, ret |-> NoValue, raised |-> TRUE, results |-> res]

(* the call from what get_top_genres and get_genre_rating_summary ended    *)
(* in, over the cleaned table d: the first exception of the four analyses  *)
(* ends it, else results['analysis'] is stored                             *)
analysis_of(d, res, genres_df, ratings_summary) ==
    LET most_played == get_most_played_game(d)
        stats == get_summary_statistics(d)
    IN  IF most_played.raised
        THEN Failed("get_most_played_game", NoValue, res)
        ELSE IF genres_df.raised
        THEN Failed("get_top_genres", TopN, res)
        ELSE IF ratings_summary.raised
        THEN Failed("get_genre_rating_summary",
                    Column(genres_df.val, "Genre"), res)
        ELSE IF stats.raised
        THEN Failed("get_summary_statistics", NoValue, res)
        ELSE [op |-> "get_summary_statistics",
              arg |-> NoValue,
              ret |-> stats.val,
              raised |-> FALSE,
              results |-> DictSet(res, "analysis",
                  [most_played |-> most_played.val,
                   genres_df |-> genres_df.val,
                   ratings_summary |-> ratings_summary.val,
                   stats |-> stats.val])]

transform_and_analyze(frame, res) ==
    UNION {UNION {
        {analysis_of(d, res, genres_df, ratings_summary) :
            ratings_summary \in
                IF genres_df.raised THEN {Raise}
                ELSE get_genre_rating_summary(
                        d, Column(genres_df.val, "Genre"))} :
        genres_df \in get_top_genres(d, TopN)} :
        d \in {_clean_data(frame)}}

-----------------------------------------------------------------------------
(* Input data *)

RPG == <<"R", "P", "G">>
Action == <<"A", "c", "t", "i", "o", "n">>
Indie == <<"I", "n", "d", "i", "e">>

GenreNames == {RPG, Action, Indie}

Quoted(name) == <<"'">> \o name \o <<"'">>

(* "['RPG']", "['Action']", "['Indie']" *)
ListOfOne(a) == <<"[">> \o Quoted(a) \o <<"]">>

(* "['RPG','Action']" *)
ListOfTwo(a, b) == <<"[">> \o Quoted(a) \o <<",">> \o Quoted(b) \o <<"]">>

(* "['Action', 'Action']" *)
ListOfTwoSpaced(a, b) ==
    <<"[">> \o Quoted(a) \o <<",", " ">> \o Quoted(b) \o <<"]">>

NotAList == <<"n", "o", "t", " ", "a", " ", "l", "i", "s", "t">>

(* raw (Plays, Rating, Genres) of the rows datasets are built from *)
RowPool ==
    << [Plays |-> Str(<<"1", "0", "K">>), Rating |-> Num(450),
        Genres |-> Str(ListOfOne(RPG))],
       [Plays |-> Str(<<"5", "K">>), Rating |-> Num(300),
        Genres |-> Str(ListOfTwo(RPG, Action))],
       [Plays |-> Str(<<"2", "0", "K">>), Rating |-> NaN,
        Genres |-> Str(ListOfOne(Action))],
       [Plays |-> Str(<<"2", "0", "K">>), Rating |-> Str(<<"4", ".", "5">>),
        Genres |-> Str(ListOfOne(Indie))],
       [Plays |-> Num(150), Rating |-> Num(300),
        Genres |-> Str(ListOfTwoSpaced(Action, Action))],
       [Plays |-> Str(<<"a", "b", "c">>), Rating |-> Str(<<"n", "/", "a">>),
        Genres |-> Str(NotAList)],
       [Plays |-> NaN, Rating |-> NaN, Genres |-> NaN],
       [Plays |-> Str(<<"1", ".", "5", "K">>), Rating |-> NaN,
        Genres |-> Str(ListOfTwoSpaced(Indie, RPG))] >>

(* rows are told apart by their titles *)
Titles == <<"A", "B", "C", "D", "E", "F">>

RawRow(i, k) ==
    [Title |-> Titles[i],
     Plays |-> RowPool[k].Plays,
     Rating |-> RowPool[k].Rating,
     Genres |-> RowPool[k].Genres,
     Platforms |-> "PC",
     Release_Date |-> "2020"]

Datasets ==
    UNION {{[i \in 1..n |-> RawRow(i, pick[i])] :
                pick \in [1..n -> 1..Len(RowPool)]} : n \in 0..MaxRows}

(* genre columns handed to get_genre_rating_summary: distinct genres in    *)
(* any order                                                               *)
GenreLists ==
    UNION {{s \in [1..n -> GenreNames] :
                \A i, j \in 1..n : i # j => s[i] # s[j]} :
           n \in 0..Cardinality(GenreNames)}

PlaysAlphabet == {"0", "1", "2", "5", "K", ".", "-", " ", "a", "b", "c"}

PlaysInputs ==
    {NaN, Num(150)}
        \cup {Str(s) : s \in UNION {[1..n -> PlaysAlphabet] : n \in 0..MaxLen}}

-----------------------------------------------------------------------------
(* The transformer: construction over the caller's table, then any         *)
(* analysis in any order                                                   *)

NoPlays == /\ pin = NaN /\ pout = 0 /\ pdone = FALSE

(* no file, no pipeline run and no main() yet *)
MissingFile == [found |-> FALSE, table |-> <<>>]

NotReturned == -1

NoRun ==
    /\ csv = MissingFile
    /\ trace = <<>>
    /\ failed = "none"
    /\ code = NotReturned
    /\ sorted = <<>>
    /\ runs = <<>>

Init ==
    /\ raw \in Datasets
    /\ df = <<>>
    /\ built = FALSE
    /\ op = "none"
    /\ arg = NoValue
    /\ ret = NoValue
    /\ raised = FALSE
    /\ results = <<>>
    /\ NoPlays
    /\ NoRun

(* __init__ without df.copy(): the caller's table is the one cleaned *)
ConstructInPlace ==
    /\ ~built
    /\ df' = _clean_data(raw)
    /\ raw' = _clean_data(raw)
    /\ built' = TRUE
    /\ op' = "__init__"
    /\ arg' = NoValue
    /\ ret' = NoValue
    /\ raised' = FALSE
    /\ UNCHANGED <<results, pin, pout, pdone, csv, sorted, runs, trace, failed, code>>

(* DataTransformer.__init__: copy the table, then _clean_data *)
Construct ==
    /\ ~built
    /\ df' = _clean_data(raw)
    /\ built' = TRUE
    /\ op' = "__init__"
    /\ arg' = NoValue
    /\ ret' = NoValue
    /\ raised' = FALSE
    /\ UNCHANGED <<raw, results, pin, pout, pdone, csv, sorted, runs, trace, failed, code>>

Call(name, a, outcomes) ==
    /\ built
    /\ \E r \in outcomes :
        /\ ret' = r.val
        /\ raised' = r.raised
    /\ op' = name
    /\ arg' = a
    /\ UNCHANGED <<raw, df, built, results, pin, pout, pdone,
                   csv, sorted, runs, trace, failed, code>>

GetMostPlayedGame ==
    Call("get_most_played_game", NoValue, {get_most_played_game(df)})

GetTopGenres ==
    \E top_n \in 0..MaxTopN :
        Call("get_top_genres", top_n, get_top_genres(df, top_n))

GetGenreRatingSummary ==
    \E genres \in GenreLists :
        Call("get_genre_rating_summary", genres,
             get_genre_rating_summary(df, genres))

GetSummaryStatistics ==
    Call("get_summary_statistics", NoValue, {get_summary_statistics(df)})

Next ==
    \/ Construct
    \/ GetMostPlayedGame
    \/ GetTopGenres
    \/ GetGenreRatingSummary
    \/ GetSummaryStatistics

Spec == Init /\ [][Next]_vars

-----------------------------------------------------------------------------
(* The transformer asked for the top rated games of genres, over tables    *)
(* of four pool rows: ratings 4.5 (RPG), 3.0 (RPG, Action), absent         *)
(* (Action), 3.0 (Action)                                                  *)

RatedPool == <<1, 2, 3, 5>>

RatedDatasets ==
    UNION {{[i \in 1..n |-> RawRow(i, RatedPool[pick[i]])] :
                pick \in [1..n -> 1..Len(RatedPool)]} : n \in 0..MaxRows}

(* genre columns of at most two genres *)
TopRatedGenreLists == {s \in GenreLists : Len(s) <= 2}

InitTopRated ==
    /\ raw \in RatedDatasets
    /\ df = <<>>
    /\ built = FALSE
    /\ op = "none"
    /\ arg = NoValue
    /\ ret = NoValue
    /\ raised = FALSE
    /\ results = <<>>
    /\ NoPlays
    /\ NoRun

GetTopRatedByGenre ==
    \E genres \in TopRatedGenreLists :
        \E top_n \in 0..MaxTopN :
            Call("get_top_rated_by_genre",
                 [genres |-> genres, top_n |-> top_n],
                 get_top_rated_by_genre(df, genres, top_n))

NextTopRated ==
    \/ Construct
    \/ GetTopRatedByGenre

SpecTopRated == InitTopRated /\ [][NextTopRated]_vars

(* the five analyses in any order, any number of times *)
NextReadOnly ==
    \/ Next
    \/ GetTopRatedByGenre

SpecReadOnly == InitTopRated /\ [][NextReadOnly]_vars

-----------------------------------------------------------------------------
(* The analyzer over its extracted table *)

(* VideoGameAnalyzer.transform_and_analyze on the analyzer's table: the     *)
(* transformer is built, the four analyses run in order, and the first     *)
(* exception ends the call before results['analysis'] is stored.           *)
TransformAndAnalyze ==
    /\ \E o \in transform_and_analyze(raw, results) :
        /\ op' = o.op
        /\ arg' = o.arg
        /\ ret' = o.ret
        /\ raised' = o.raised
        /\ results' = o.results
    /\ df' = _clean_data(raw)
    /\ built' = TRUE
    /\ UNCHANGED <<raw, pin, pout, pdone, csv, sorted, runs, trace, failed, code>>

SpecAnalyzer == Init /\ [][TransformAndAnalyze]_vars

-----------------------------------------------------------------------------
(* The stage run again over the same rows, on the same analyzer or on a    *)
(* fresh one.  sort_values is not stable, but it is a function of the      *)
(* frame it is given: a frame it has ordered before comes out in the same  *)
(* order again.  The specifications above leave the order of equal rows    *)
(* free at every call, since none of them compares two calls.              *)

sort_values_unrepeatable(seen, by, frame, orders) == orders

(* the outcomes of a call that sorts frame by a column: what it gave the   *)
(* last time for this frame, else any of its orders                        *)
sort_values(seen, by, frame, orders) ==
    IF <<by, frame>> \in DOMAIN seen THEN {seen[<<by, frame>>]} ELSE orders

TransformAndAnalyzeAgain ==
    /\ Len(runs) < MaxRuns
    /\ \E res \in {results, <<>>}, d \in {_clean_data(raw)} :
        \E genre_dict_frame \in {genre_dict(genre_plays(d))} :
        \E genres_df \in sort_values(sorted, "Total_Plays", genre_dict_frame,
                                     get_top_genres(d, TopN)) :
        \E genres \in {IF genres_df.raised THEN <<>>
                       ELSE Column(genres_df.val, "Genre")} :
        \E ratings_frame \in {genre_avg_ratings(d, genres)} :
        \E ratings_summary \in
                IF genres_df.raised THEN {Raise}
                ELSE sort_values(sorted, "Average_Rating", ratings_frame,
                                 get_genre_rating_summary(d, genres)) :
        \E o \in {analysis_of(d, res, genres_df, ratings_summary)} :
            /\ op' = o.op
            /\ arg' = o.arg
            /\ ret' = o.ret
            /\ raised' = o.raised
            /\ results' = o.results
            /\ df' = d
            /\ built' = TRUE
            /\ sorted' = DictSet(
                    DictSet(sorted, <<"Total_Plays", genre_dict_frame>>,
                            genres_df),
                    <<"Average_Rating", ratings_frame>>, ratings_summary)
            /\ runs' = Append(runs,
                    [raised |-> o.raised,
                     analysis |-> IF o.raised THEN NoValue
                                  ELSE o.results["analysis"]])
    /\ UNCHANGED <<raw, pin, pout, pdone, csv, trace, failed, code>>

SpecTwice == Init /\ [][TransformAndAnalyzeAgain]_vars

-----------------------------------------------------------------------------
(* The analyzer over a source file: VideoGameAnalyzer.run_full_pipeline *)

(* the file is missing, or holds a table *)
Files == {MissingFile} \cup {[found |-> TRUE, table |-> d] : d \in Datasets}

(* readings of datetime.now() *)
Clock == {0, 1}

Columns == <<"Title", "Plays", "Rating", "Genres", "Platforms", "Release_Date">>

(* DataExtractor.extract_data: pd.read_csv; FileNotFoundError is logged    *)
(* and raised again                                                        *)
extract_data(file) == IF file.found THEN Return(file.table) ELSE Raise

(* DataExtractor.get_data_info, the entries the analyzer reads *)
get_data_info(table) == [total_records |-> Len(table), columns |-> Columns]

(* results['extraction'] of VideoGameAnalyzer.extract_data *)
Extraction(table) ==
    LET data_info == get_data_info(table)
    IN  [total_records |-> data_info.total_records,
         columns_count |-> Len(data_info.columns),
         columns |-> data_info.columns]

Outputs ==
    [text_report |-> "output/analisis_videojuegos.txt",
     most_played_chart |-> "output/juego_mas_jugado.png",
     top_genres_chart |-> "output/top_20_generos.png",
     ratings_pie_chart |-> "output/ratings_por_genero_torta.png",
     combined_analysis |-> "output/analisis_combinado.png"]

(* DataLoader(output_dir).generate_all_visualizations: the report and the  *)
(* charts are written, or writing or drawing one of them raises; which, is *)
(* up to the file system and the plotting library (rendered).              *)
generate_all_visualizations(rendered) ==
    IF rendered THEN Return(Outputs) ELSE Raise

(* results['execution'] of a run that ended well *)
ExecutionSuccess(start_time, end_time) ==
    [start_time |-> start_time,
     end_time |-> end_time,
     duration |-> end_time - start_time,
     status |-> "success"]

(* results['execution'] of a run that raised; str(e) is told apart by the  *)
(* call that raised                                                        *)
ExecutionErrorAsSuccess(start_time, end_time, e) ==
    [start_time |-> start_time,
     end_time |-> end_time,
     duration |-> end_time - start_time,
     status |-> "success",
     error |-> e]

ExecutionError(start_time, end_time, e) ==
    [start_time |-> start_time,
     end_time |-> end_time,
     duration |-> end_time - start_time,
     status |-> "error",
     error |-> e]

(* the except branch: the status is recorded and the exception raised      *)
(* again; table is self.df, transformed whether a transformer was built    *)
Aborted(phases, step, a, res, table, transformed, start_time, end_time) ==
    [trace |-> phases,
     failed |-> step,
     op |-> step,
     arg |-> a,
     ret |-> NoValue,
     raised |-> TRUE,
     results |-> DictSet(res, "execution",
                         ExecutionError(start_time, end_time, step)),
     raw |-> table,
     transformed |-> transformed]

(* the outcomes of one run_full_pipeline(): extract_data,                  *)
(* transform_and_analyze and load_results in turn, the first exception     *)
(* ending the run.  table0 is self.df before the run.                      *)
run_full_pipeline(file, res, table0, start_time, end_time, rendered) ==
    LET ext == extract_data(file)
        table == ext.val
        outputs == generate_all_visualizations(rendered)
    IN  IF ext.raised
        THEN {Aborted(<<"extract_data">>, "extract_data", NoValue, res,
                      table0, FALSE, start_time, end_time)}
        ELSE {IF o.raised
              THEN Aborted(<<"extract_data", "transform_and_analyze">>,
                           o.op, o.arg, o.results, table, TRUE,
                           start_time, end_time)
              ELSE IF outputs.raised
              THEN Aborted(<<"extract_data", "transform_and_analyze",
                             "load_results">>,
                           "load_results", NoValue, o.results, table, TRUE,
                           start_time, end_time)
              ELSE [trace |-> <<"extract_data", "transform_and_analyze",
                                "load_results">>,
                    failed |-> "none",
                    op |-> "run_full_pipeline",
                    arg |-> NoValue,
                    ret |-> NoValue,
                    raised |-> FALSE,
                    results |-> DictSet(DictSet(o.results, "outputs", outputs.val),
                                        "execution",
                                        ExecutionSuccess(start_time, end_time)),
                    raw |-> table,
                    transformed |-> TRUE] :
              o \in transform_and_analyze(table,
                        DictSet(res, "extraction", Extraction(table)))}

InitRun ==
    /\ csv \in Files
    /\ raw = <<>>
    /\ df = <<>>
    /\ built = FALSE
    /\ op = "none"
    /\ arg = NoValue
    /\ ret = NoValue
    /\ raised = FALSE
    /\ results = <<>>
    /\ NoPlays
    /\ trace = <<>>
    /\ failed = "none"
    /\ code = NotReturned
    /\ sorted = <<>>
    /\ runs = <<>>

RunFullPipeline ==
    \E start_time \in Clock, end_time \in Clock, rendered \in BOOLEAN :
        /\ start_time <= end_time
        /\ \E o \in run_full_pipeline(csv, results, raw,
                                      start_time, end_time, rendered) :
            /\ trace' = o.trace
            /\ failed' = o.failed
            /\ op' = o.op
            /\ arg' = o.arg
            /\ ret' = o.ret
            /\ raised' = o.raised
            /\ results' = o.results
            /\ raw' = o.raw
            /\ df' = IF o.transformed THEN _clean_data(o.raw) ELSE df
            /\ built' = (built \/ o.transformed)
        /\ UNCHANGED <<pin, pout, pdone, csv, sorted, runs, code>>

SpecPipeline == InitRun /\ [][RunFullPipeline]_vars

-----------------------------------------------------------------------------
(* The analyzer called phase by phase: extract_data, transform_and_analyze *)
(* and analyze_top_games_by_categories in any order                        *)

(* the methods of class DataTransformer *)
DataTransformerMethods ==
    {"__init__", "_clean_data", "_convert_plays_to_numeric", "_parse_genres",
     "get_most_played_game", "get_top_genres", "get_top_rated_by_genre",
     "get_genre_rating_summary", "get_summary_statistics"}

(* VideoGameAnalyzer.extract_data *)
ExtractData ==
    LET ext == extract_data(csv)
    IN  /\ op' = "extract_data"
        /\ arg' = NoValue
        /\ ret' = NoValue
        /\ raised' = ext.raised
        /\ raw' = IF ext.raised THEN raw ELSE ext.val
        /\ results' = IF ext.raised THEN results
                      ELSE DictSet(results, "extraction", Extraction(ext.val))
        /\ UNCHANGED <<df, built, pin, pout, pdone, csv, sorted, runs, trace, failed, code>>

(* transform_and_analyze: before any extraction the analyzer has no df     *)
(* (AttributeError)                                                        *)
AnalyzerTransformAndAnalyze ==
    IF "extraction" \in DOMAIN results
    THEN TransformAndAnalyze
    ELSE /\ op' = "transform_and_analyze"
         /\ arg' = NoValue
         /\ ret' = NoValue
         /\ raised' = TRUE
         /\ UNCHANGED <<raw, df, built, results, pin, pout, pdone,
                        csv, sorted, runs, trace, failed, code>>

(* analyze_top_games_by_categories: results['analysis'] is read (KeyError  *)
(* without it), the leading genres are joined for the log (TypeError when  *)
(* one is not a string), then get_top_games_multiple_genres is looked up   *)
(* on the transformer (AttributeError when the class has no such method).  *)
(* What that method would return is not known: the charts are drawn from   *)
(* it and the entry stored.                                                *)
analyze_top_games_by_categories(res, top_n_genres, top_n_games) ==
    LET a == [top_n_genres |-> top_n_genres, top_n_games |-> top_n_games]
        genres_df == res["analysis"].genres_df
        top_genres == Column(head(genres_df, top_n_genres), "Genre")
    IN  IF "analysis" \notin DOMAIN res
        THEN Failed("analyze_top_games_by_categories", a, res)
        ELSE IF \E j \in 1..Len(top_genres) : ~IsString(top_genres[j])
        THEN Failed("analyze_top_games_by_categories", a, res)
        ELSE IF "get_top_games_multiple_genres" \notin DataTransformerMethods
        THEN Failed("analyze_top_games_by_categories", a, res)
        ELSE [op |-> "analyze_top_games_by_categories",
              arg |-> a,
              ret |-> NoValue,
              raised |-> FALSE,
              results |-> DictSet(res, "top_games_analysis",
                  [top_genres |-> top_genres,
                   top_games_dict |-> NoValue,
                   individual_charts |-> <<>>,
                   combined_chart |-> "output/top_5_juegos_todas_categorias.png"])]

(* the default counts, 6 genres and 5 games, and one genre *)
CategoryCounts == {1, 6}

GamesPerCategory == {5}

AnalyzeTopGamesByCategories ==
    \E top_n_genres \in CategoryCounts, top_n_games \in GamesPerCategory :
        LET o == analyze_top_games_by_categories(results, top_n_genres, top_n_games)
        IN  /\ op' = o.op
            /\ arg' = o.arg
            /\ ret' = o.ret
            /\ raised' = o.raised
            /\ results' = o.results
            /\ UNCHANGED <<raw, df, built, pin, pout, pdone,
                           csv, sorted, runs, trace, failed, code>>

NextCategories ==
    \/ ExtractData
    \/ AnalyzerTransformAndAnalyze
    \/ AnalyzeTopGamesByCategories

SpecCategories == InitRun /\ [][NextCategories]_vars

-----------------------------------------------------------------------------
(* The analyzer called phase by phase and as a whole: extract_data,        *)
(* transform_and_analyze, load_results, run_full_pipeline and              *)
(* print_results_summary in any order                                      *)

(* load_results that does not read results['analysis'] before the charts   *)
(* are drawn                                                               *)
LoadResultsWithoutAnalysis ==
    \E rendered \in BOOLEAN :
        LET outputs == generate_all_visualizations(rendered)
        IN  /\ op' = "load_results"
            /\ arg' = NoValue
            /\ ret' = outputs.val
            /\ raised' = outputs.raised
            /\ results' = IF outputs.raised THEN results
                          ELSE DictSet(results, "outputs", outputs.val)
            /\ UNCHANGED <<raw, df, built, pin, pout, pdone,
                           csv, sorted, runs, trace, failed, code>>

(* VideoGameAnalyzer.load_results: results['analysis'] is read (KeyError   *)
(* without it), the report and charts are written or writing one raises,   *)
(* then results['outputs'] is stored.                                      *)
LoadResults ==
    \E rendered \in BOOLEAN :
        LET outputs == generate_all_visualizations(rendered)
            done == "analysis" \in DOMAIN results /\ ~outputs.raised
        IN  /\ op' = "load_results"
            /\ arg' = NoValue
            /\ ret' = IF done THEN outputs.val ELSE NoValue
            /\ raised' = ~done
            /\ results' = IF done THEN DictSet(results, "outputs", outputs.val)
                          ELSE results
            /\ UNCHANGED <<raw, df, built, pin, pout, pdone,
                           csv, sorted, runs, trace, failed, code>>

(* VideoGameAnalyzer.print_results_summary: nothing to show without        *)
(* results['analysis']; otherwise every entry it prints is looked up, and  *)
(* one that is not there is a KeyError.  results is left as it is.         *)
PrintResultsSummary ==
    LET has(d, keys) == keys \subseteq DOMAIN d
        rows(frame, keys) == \A i \in 1..Len(frame) : has(frame[i], keys)
        shown ==
            /\ has(results, {"extraction"})
            /\ has(results["extraction"], {"total_records", "columns_count"})
            /\ has(results["analysis"],
                   {"most_played", "genres_df", "ratings_summary", "stats"})
            /\ has(results["analysis"].most_played, {"title", "plays", "rating"})
            /\ rows(head(results["analysis"].genres_df, 3),
                    {"Genre", "Total_Plays"})
            /\ rows(head(results["analysis"].ratings_summary, 3),
                    {"Genre", "Average_Rating"})
            /\ has(results["analysis"].stats,
                   {"total_games", "total_plays", "average_rating",
                    "unique_genres"})
            /\ "execution" \in DOMAIN results =>
                    has(results["execution"], {"duration", "end_time"})
    IN  /\ op' = "print_results_summary"
        /\ arg' = NoValue
        /\ ret' = NoValue
        /\ raised' = ("analysis" \in DOMAIN results /\ ~shown)
        /\ UNCHANGED <<raw, df, built, results, pin, pout, pdone,
                       csv, sorted, runs, trace, failed, code>>

(* the file is missing, or holds a table of rated rows: tables whose      *)
(* analyses return, the empty one, and tables where no genre is rated     *)
InitPhases ==
    /\ csv \in {MissingFile}
                \cup {[found |-> TRUE, table |-> d] : d \in RatedDatasets}
    /\ raw = <<>>
    /\ df = <<>>
    /\ built = FALSE
    /\ op = "none"
    /\ arg = NoValue
    /\ ret = NoValue
    /\ raised = FALSE
    /\ results = <<>>
    /\ NoPlays
    /\ trace = <<>>
    /\ failed = "none"
    /\ code = NotReturned
    /\ sorted = <<>>
    /\ runs = <<>>

SpecPhases ==
    InitPhases /\ [][\/ ExtractData
                  \/ AnalyzerTransformAndAnalyze
                  \/ LoadResults
                  \/ RunFullPipeline
                  \/ PrintResultsSummary]_vars

-----------------------------------------------------------------------------
(* The command entry points: main() of src/main.py and main() of           *)
(* src/generar_graficas_top5.py.  Printing is not modelled.                *)

MainSteps ==
    <<"extract_data", "DataTransformer", "get_most_played_game",
      "get_top_genres", "get_genre_rating_summary", "get_summary_statistics",
      "generate_all_visualizations">>

Top5Steps ==
    <<"extract_data", "transform_and_analyze",
      "analyze_top_games_by_categories">>

(* the steps started when step is the one that raises *)
StepsUpTo(steps, step) ==
    SubSeq(steps, 1, CHOOSE i \in 1..Len(steps) : steps[i] = step)

(* return 0 at the end of the try block, return 1 in the except branch *)
exit_code_always_zero(step) == 0

exit_code(step) == IF step = "none" THEN 0 ELSE 1

MainOutcome(steps, step) ==
    [trace |-> IF step = "none" THEN steps ELSE StepsUpTo(steps, step),
     failed |-> step,
     code |-> exit_code(step)]

(* main() of src/main.py: extraction, the transformer and its four         *)
(* analyses in the order of transform_and_analyze, then the loader, all    *)
(* inside one try block                                                    *)
main(file, rendered) ==
    LET ext == extract_data(file)
        outputs == generate_all_visualizations(rendered)
    IN  IF ext.raised THEN {MainOutcome(MainSteps, "extract_data")}
        ELSE {IF o.raised THEN MainOutcome(MainSteps, o.op)
              ELSE IF outputs.raised
              THEN MainOutcome(MainSteps, "generate_all_visualizations")
              ELSE MainOutcome(MainSteps, "none") :
              o \in transform_and_analyze(ext.val, <<>>)}

(* main() of src/generar_graficas_top5.py: a new analyzer, extract_data,   *)
(* transform_and_analyze, analyze_top_games_by_categories(6, 5), all       *)
(* inside one try block                                                    *)
main_top5(file) ==
    LET ext == extract_data(file)
    IN  IF ext.raised THEN {MainOutcome(Top5Steps, "extract_data")}
        ELSE {IF o.raised THEN MainOutcome(Top5Steps, "transform_and_analyze")
              ELSE IF analyze_top_games_by_categories(o.results, 6, 5).raised
              THEN MainOutcome(Top5Steps, "analyze_top_games_by_categories")
              ELSE MainOutcome(Top5Steps, "none") :
              o \in transform_and_analyze(ext.val,
                        DictSet(<<>>, "extraction", Extraction(ext.val)))}

(* the exception is caught in main(): the caller gets the exit code *)
Returned(name, outcomes) ==
    /\ \E o \in outcomes :
        /\ trace' = o.trace
        /\ failed' = o.failed
        /\ code' = o.code
    /\ op' = name
    /\ arg' = NoValue
    /\ ret' = NoValue
    /\ raised' = FALSE
    /\ UNCHANGED <<raw, df, built, results, pin, pout, pdone, csv, sorted, runs>>

Main == \E rendered \in BOOLEAN : Returned("main", main(csv, rendered))

MainTop5 == Returned("generar_graficas_top5.main", main_top5(csv))

NextMain ==
    \/ Main
    \/ MainTop5

SpecMain == InitRun /\ [][NextMain]_vars

-----------------------------------------------------------------------------
(* _convert_plays_to_numeric on its own, over every short text *)

InitPlays ==
    /\ raw = <<>>
    /\ df = <<>>
    /\ built = FALSE
    /\ op = "none"
    /\ arg = NoValue
    /\ ret = NoValue
    /\ raised = FALSE
    /\ results = <<>>
    /\ pin \in PlaysInputs
    /\ pout = 0
    /\ pdone = FALSE
    /\ NoRun

ConvertPlays ==
    /\ ~pdone
    /\ pout' = _convert_plays_to_numeric(pin)
    /\ pdone' = TRUE
    /\ UNCHANGED <<raw, df, built, op, arg, ret, raised, results, pin,
                   csv, sorted, runs, trace, failed, code>>

SpecPlays == InitPlays /\ [][ConvertPlays]_vars

-----------------------------------------------------------------------------
(* _clean_data over a table of one row, one raw field ranging over every   *)
(* short value while the others stay those of the first pool row           *)

RatingAlphabet == {"4", "5", "7", ".", "-", "a"}

(* raw Rating cells: absent, numbers inside and outside 0..5, short texts  *)
RatingInputs ==
    {NaN, Num(0), Num(450), Num(500), Num(700), Num(-100)}
        \cup {Str(s) : s \in UNION {[1..n -> RatingAlphabet] : n \in 0..MaxLen}}

GenresAlphabet == {"[", "]", "'", ",", "a", "1", " "}

(* "[],[]", a tuple of two lists *)
TupleOfLists == <<"[", "]", ",", "[", "]">>

(* raw Genres cells: absent, a number, every short text, and the list and  *)
(* string literals of the genre names                                      *)
GenresInputs ==
    {NaN, Num(1), Str(NotAList)}
        \cup {Str(s) :
                s \in UNION {[1..n -> GenresAlphabet] : n \in 0..MaxGenresLen}}
        \cup {Str(Quoted(a)) : a \in GenreNames}
        \cup {Str(ListOfOne(a)) : a \in GenreNames}
        \cup {Str(ListOfTwo(a, b)) : a, b \in GenreNames}
        \cup {Str(ListOfTwoSpaced(a, b)) : a, b \in GenreNames}

CleanInputs ==
    {<<[RawRow(1, 1) EXCEPT !.Rating = r]>> : r \in RatingInputs}
        \cup {<<[RawRow(1, 1) EXCEPT !.Genres = g]>> : g \in GenresInputs}

InitClean ==
    /\ raw \in CleanInputs
    /\ df = <<>>
    /\ built = FALSE
    /\ op = "none"
    /\ arg = NoValue
    /\ ret = NoValue
    /\ raised = FALSE
    /\ results = <<>>
    /\ NoPlays
    /\ NoRun

SpecClean == InitClean /\ [][Construct]_vars

-----------------------------------------------------------------------------
(* The transformer over noisy tables: a clean row and rows whose fields    *)
(* are junk, or whose Genres is a list literal with a number or a nested   *)
(* list in it                                                              *)

(* "[1]" *)
ListOfNumber == <<"[", "1", "]">>

(* "['RPG', ['Action']]" *)
ListWithNested(a, b) ==
    <<"[">> \o Quoted(a) \o <<",", " ">> \o ListOfOne(b) \o <<"]">>

NoisyPool ==
    << [Plays |-> Str(<<"1", "0", "K">>), Rating |-> Num(450),
        Genres |-> Str(ListOfOne(RPG))],
       [Plays |-> Str(<<"a", "b", "c">>), Rating |-> Str(<<"n", "/", "a">>),
        Genres |-> Str(NotAList)],
       [Plays |-> NaN, Rating |-> NaN, Genres |-> Str(Quoted(Action))],
       [Plays |-> Str(<<"5", "K">>), Rating |-> Num(300),
        Genres |-> Str(ListOfNumber)],
       [Plays |-> Str(<<"2", "0", "K">>), Rating |-> NaN,
        Genres |-> Str(ListWithNested(RPG, Action))] >>

NoisyRow(i, k) ==
    [Title |-> Titles[i],
     Plays |-> NoisyPool[k].Plays,
     Rating |-> NoisyPool[k].Rating,
     Genres |-> NoisyPool[k].Genres,
     Platforms |-> "PC",
     Release_Date |-> "2020"]

(* tables of at least one row *)
NoisyDatasets ==
    UNION {{[i \in 1..n |-> NoisyRow(i, pick[i])] :
                pick \in [1..n -> 1..Len(NoisyPool)]} : n \in 1..MaxRows}

InitNoisy ==
    /\ raw \in NoisyDatasets
    /\ df = <<>>
    /\ built = FALSE
    /\ op = "none"
    /\ arg = NoValue
    /\ ret = NoValue
    /\ raised = FALSE
    /\ results = <<>>
    /\ NoPlays
    /\ NoRun

SpecNoisy == InitNoisy /\ [][Next]_vars

-----------------------------------------------------------------------------
(* Reference notions the properties are stated with *)

Range(s) == {s[i] : i \in DOMAIN s}

RECURSIVE SumFn(_)
SumFn(f) ==
    IF DOMAIN f = {} THEN 0
    ELSE LET i == CHOOSE x \in DOMAIN f : TRUE
         IN  f[i] + SumFn([j \in DOMAIN f \ {i} |-> f[j]])

Rows(frame) == 1..Len(frame)

AllGenres(frame) == UNION {Range(frame[k].Genres_list) : k \in Rows(frame)}

Members(frame, g) == {k \in Rows(frame) : g \in Range(frame[k].Genres_list)}

Rated(frame, g) == {k \in Members(frame, g) : ~isna(frame[k].Rating)}

(* plays of the records containing g, each record once *)
MemberTotal(frame, g) ==
    SumFn([k \in Members(frame, g) |-> frame[k].Plays_numeric])

Occurrences(g, list) == Cardinality({j \in 1..Len(list) : list[j] = g})

(* plays of the records containing g, once per entry of the genre list *)
ExplodeTotal(frame, g) ==
    SumFn([k \in Rows(frame) |->
            frame[k].Plays_numeric * Occurrences(g, frame[k].Genres_list)])

(* characters of the genre names in code point order *)
CodeOrder == <<"A", "G", "I", "P", "R", "c", "d", "e", "i", "n", "o", "t">>

Code(c) == CHOOSE i \in 1..Len(CodeOrder) : CodeOrder[i] = c

RECURSIVE StrLess(_, _)
StrLess(a, b) ==
    IF b = <<>> THEN FALSE
    ELSE IF a = <<>> THEN TRUE
    ELSE IF Head(a) # Head(b) THEN Code(Head(a)) < Code(Head(b))
    ELSE StrLess(Tail(a), Tail(b))

Totals(rows) == [i \in 1..Len(rows) |-> rows[i].Total_Plays]

Reorder(frame, p) == [i \in 1..Len(frame) |-> frame[p[i]]]

-----------------------------------------------------------------------------
(* C1: the three-row scenario A("10K", 4.5, ['RPG']),                      *)
(* B("5K", 3.0, ['RPG','Action']), C("20K", absent, ['Action']) goes       *)
(* through transform_and_analyze without an exception and yields           *)
(* most played = C with 20000 plays, top genres = [(Action, 25000),        *)
(* (RPG, 15000)], rating summary = [(RPG, 3.75, 2), (Action, 3.0, 2)] and  *)
(* statistics 3 games, 35000 plays, average 3.75, max 4.5, min 3.0,        *)
(* 2 genres.                                                               *)

ScenarioRaw == <<RawRow(1, 1), RawRow(2, 2), RawRow(3, 3)>>

C1_EndToEndScenario ==
    (raw = ScenarioRaw /\ built) =>
        /\ ~raised
        /\ "analysis" \in DOMAIN results
        /\ LET a == results["analysis"]
           IN  /\ a.most_played.title = "C"
               /\ a.most_played.plays_numeric = 20000
               /\ a.genres_df =
                    <<[Genre |-> Action, Total_Plays |-> 25000],
                      [Genre |-> RPG, Total_Plays |-> 15000]>>
               /\ a.ratings_summary =
                    <<[Genre |-> RPG,
                       Average_Rating |-> [nan |-> FALSE, num |-> 375, den |-> 1],
                       Game_Count |-> 2],
                      [Genre |-> Action,
                       Average_Rating |-> [nan |-> FALSE, num |-> 300, den |-> 1],
                       Game_Count |-> 2]>>
               /\ a.stats =
                    [total_games |-> 3,
                     total_plays |-> 35000,
                     average_rating |-> [nan |-> FALSE, num |-> 375, den |-> 1],
                     max_rating |-> Num(450),
                     min_rating |-> Num(300),
                     unique_genres |-> 2]

C1_Witness ==
    /\ raw = ScenarioRaw
    /\ built
    /\ "analysis" \in DOMAIN results
    /\ op = "get_summary_statistics"

-----------------------------------------------------------------------------
(* C2: on a non-empty table get_most_played_game returns, without an       *)
(* exception, a record whose plays_numeric is at least that of every       *)
(* record, and of the records with that maximum the first in row order.    *)

C2_MostPlayedIsFirstMaximum ==
    (op = "get_most_played_game" /\ df # <<>>) =>
        /\ ~raised
        /\ \E i \in Rows(df) :
            /\ ret.title = df[i].Title
            /\ ret.plays_numeric = df[i].Plays_numeric
            /\ \A j \in Rows(df) : df[j].Plays_numeric <= df[i].Plays_numeric
            /\ \A j \in 1..(i - 1) : df[j].Plays_numeric # df[i].Plays_numeric

C2_Witness ==
    /\ op = "get_most_played_game"
    /\ ~raised
    /\ \E i, j \in Rows(df) :
        /\ i < j
        /\ df[i].Plays_numeric = df[j].Plays_numeric
        /\ df[i].Plays_numeric > 0
        /\ \A k \in Rows(df) : df[k].Plays_numeric <= df[i].Plays_numeric
        /\ ret.title = df[i].Title

-----------------------------------------------------------------------------
(* C3: when get_top_genres returns every genre, Total_Plays of each genre  *)
(* is the sum of plays_numeric over the records whose genre list contains  *)
(* it, each record counted once even when its list names the genre twice.  *)

C3_TotalCountsEachMemberOnce ==
    (op = "get_top_genres" /\ ~raised /\ arg >= Cardinality(AllGenres(df))) =>
        \A i \in 1..Len(ret) :
            ret[i].Total_Plays = MemberTotal(df, ret[i].Genre)

-----------------------------------------------------------------------------
(* C4: get_top_genres(n), n >= 0, returns without an exception rows in     *)
(* non-increasing Total_Plays order, no genre twice, min(n, number of      *)
(* distinct genres) rows, and no genre left out has a larger total than a  *)
(* genre returned; with n above the number of genres all are returned.     *)

C4_TopGenresShape ==
    op = "get_top_genres" =>
        /\ ~raised
        /\ \A i, j \in 1..Len(ret) :
            i < j => /\ ret[i].Total_Plays >= ret[j].Total_Plays
                     /\ ret[i].Genre # ret[j].Genre
        /\ Len(ret) = Min2(arg, Cardinality(AllGenres(df)))
        /\ {ret[i].Genre : i \in 1..Len(ret)} \subseteq AllGenres(df)
        /\ \A g \in AllGenres(df) \ {ret[i].Genre : i \in 1..Len(ret)} :
            \A i \in 1..Len(ret) : ExplodeTotal(df, g) <= ret[i].Total_Plays

C4_Witness ==
    /\ op = "get_top_genres"
    /\ ~raised
    /\ Cardinality(AllGenres(df)) >= 2
    /\ arg > Cardinality(AllGenres(df))
    /\ Len(ret) = Cardinality(AllGenres(df))
    /\ ret[1].Total_Plays > ret[2].Total_Plays

-----------------------------------------------------------------------------
(* C5 as stated: genres of equal Total_Plays come in ascending genre name  *)
(* order, and a cut inside a group of equal totals keeps the smallest      *)
(* names.                                                                  *)

C5_TiesByAscendingName ==
    (op = "get_top_genres" /\ ~raised) =>
        /\ \A i, j \in 1..Len(ret) :
            (i < j /\ ret[i].Total_Plays = ret[j].Total_Plays)
                => StrLess(ret[i].Genre, ret[j].Genre)
        /\ \A g \in AllGenres(df) \ {ret[i].Genre : i \in 1..Len(ret)} :
            \A i \in 1..Len(ret) :
                ret[i].Total_Plays = ExplodeTotal(df, g)
                    => StrLess(ret[i].Genre, g)

(* C5 amended: genres of equal Total_Plays come in no guaranteed order;    *)
(* the sequence of Total_Plays values returned by get_top_genres(n) is the *)
(* same for every order of the rows of the table.                          *)

C5_TotalsIndependentOfRowOrder ==
    (op = "get_top_genres" /\ ~raised) =>
        \A p \in Permutations(Rows(raw)) :
            \A r \in get_top_genres(_clean_data(Reorder(raw, p)), arg) :
                /\ ~r.raised
                /\ Totals(r.val) = Totals(ret)

C5_Witness ==
    /\ op = "get_top_genres"
    /\ ~raised
    /\ \E i, j \in 1..Len(ret) :
        /\ i < j
        /\ ret[i].Total_Plays = ret[j].Total_Plays
        /\ StrLess(ret[j].Genre, ret[i].Genre)

-----------------------------------------------------------------------------
(* C6: the genres in the result of get_genre_rating_summary are exactly    *)
(* the genres of the given column with at least one member record of       *)
(* present rating, one row each; the call ends in an exception only when   *)
(* no genre qualifies.                                                     *)

Qualifying(frame, genres) == {g \in Range(genres) : Rated(frame, g) # {}}

C6_SummaryGenresAreTheRatedOnes ==
    op = "get_genre_rating_summary" =>
        IF raised THEN Qualifying(df, arg) = {}
        ELSE /\ {ret[i].Genre : i \in 1..Len(ret)} = Qualifying(df, arg)
             /\ Len(ret) = Cardinality(Qualifying(df, arg))

C6_Witness ==
    /\ op = "get_genre_rating_summary"
    /\ ~raised
    /\ Len(ret) >= 1
    /\ \E g \in Range(arg) : Members(df, g) # {} /\ Rated(df, g) = {}
    /\ \E g \in Range(arg) : Members(df, g) = {}

-----------------------------------------------------------------------------
(* C7: in every row of the result of get_genre_rating_summary Game_Count   *)
(* is the number of records containing the genre, rated or not, and        *)
(* Average_Rating is the sum of their present ratings over the number of   *)
(* them with a present rating; it lies in [0, 5] when those ratings do.    *)

C7_CountAllMembersAverageRatedOnly ==
    (op = "get_genre_rating_summary" /\ ~raised) =>
        \A i \in 1..Len(ret) :
            LET g == ret[i].Genre
                avg == ret[i].Average_Rating
                rated == Rated(df, g)
                total == SumFn([k \in rated |-> df[k].Rating.v])
            IN  /\ ret[i].Game_Count = Cardinality(Members(df, g))
                /\ rated # {}
                /\ ~avg.nan
                /\ avg.den > 0
                /\ avg.num * Cardinality(rated) = total * avg.den
                /\ (\A k \in rated : df[k].Rating.v \in 0..500)
                        => (0 <= avg.num /\ avg.num <= 500 * avg.den)

C7_Witness ==
    /\ op = "get_genre_rating_summary"
    /\ ~raised
    /\ \E i \in 1..Len(ret) :
        /\ Cardinality(Rated(df, ret[i].Genre)) >= 2
        /\ Cardinality(Members(df, ret[i].Genre))
                > Cardinality(Rated(df, ret[i].Genre))
        /\ \E k, m \in Rated(df, ret[i].Genre) : df[k].Rating # df[m].Rating

-----------------------------------------------------------------------------
(* C8: the rows of the result of get_genre_rating_summary are in           *)
(* non-increasing Average_Rating order, whatever the order of the genres   *)
(* given.                                                                  *)

C8_SummarySortedByAverage ==
    (op = "get_genre_rating_summary" /\ ~raised) =>
        \A i, j \in 1..Len(ret) :
            i < j =>
                /\ ~ret[i].Average_Rating.nan
                /\ ~ret[j].Average_Rating.nan
                /\ ret[i].Average_Rating.num * ret[j].Average_Rating.den
                        >= ret[j].Average_Rating.num * ret[i].Average_Rating.den

C8_Witness ==
    /\ op = "get_genre_rating_summary"
    /\ ~raised
    /\ Len(arg) = 2
    /\ Len(ret) = 2
    /\ ret[1].Genre = arg[2]
    /\ ret[2].Genre = arg[1]
    /\ ret[1].Average_Rating # ret[2].Average_Rating

-----------------------------------------------------------------------------
(* C9: on a table with at least one present rating get_summary_statistics  *)
(* returns the number of records, the sum of plays_numeric, the mean,      *)
(* largest and smallest of the present ratings (absent ones left out, not  *)
(* taken as zero) and the number of distinct genres over all genre lists.  *)

RatedRows(frame) == {k \in Rows(frame) : ~isna(frame[k].Rating)}

C9_SummaryStatistics ==
    (op = "get_summary_statistics" /\ RatedRows(df) # {}) =>
        LET rated == RatedRows(df)
            total == SumFn([k \in rated |-> df[k].Rating.v])
        IN  /\ ~raised
            /\ ret.total_games = Len(df)
            /\ ret.total_plays = SumFn([k \in Rows(df) |-> df[k].Plays_numeric])
            /\ ~ret.average_rating.nan
            /\ ret.average_rating.den > 0
            /\ ret.average_rating.num * Cardinality(rated)
                    = total * ret.average_rating.den
            /\ \E k \in rated : ret.max_rating = df[k].Rating
            /\ \A k \in rated : df[k].Rating.v <= ret.max_rating.v
            /\ \E k \in rated : ret.min_rating = df[k].Rating
            /\ \A k \in rated : df[k].Rating.v >= ret.min_rating.v
            /\ ret.unique_genres = Cardinality(AllGenres(df))

C9_Witness ==
    /\ op = "get_summary_statistics"
    /\ ~raised
    /\ RatedRows(df) # {}
    /\ RatedRows(df) # Rows(df)
    /\ ret.max_rating # ret.min_rating
    /\ \E g \in AllGenres(df) : Cardinality(Members(df, g)) >= 2
    /\ ret.unique_genres >= 2

-----------------------------------------------------------------------------
(* C10: _convert_plays_to_numeric returns 0 for an absent value, the       *)
(* number times 1000 truncated for a trimmed text that is a decimal number *)
(* followed by the suffix 'K', the integer for a trimmed plain integer     *)
(* literal, and 0 for every other text.                                    *)

ClaimedPlays(x) ==
    IF isna(x) THEN 0
    ELSE LET t == strip(PyStr(x))
             number == SubSeq(t, 1, Len(t) - 1)
         IN  IF /\ t # <<>>
                /\ t[Len(t)] = "K"
                /\ ~Contains(number, "K")
                /\ PyFloat(number).ok
             THEN TimesThousandTrunc(PyFloat(number))
             ELSE IF ~Contains(t, "K") /\ PyInt(t).ok THEN PyInt(t).v
             ELSE 0

C10_PlaysConversionTable == pdone => pout = ClaimedPlays(pin)

-----------------------------------------------------------------------------
(* C11: Plays_numeric is a non-negative integer for every raw Plays value, *)
(* negative numbers ("-5", "-2K") and junk included, which map to 0.       *)

C11_PlaysNonNegative == pdone => pout >= 0

-----------------------------------------------------------------------------
(* C12: after cleaning, every Rating is absent or a number in [0,5]        *)
(* (0..500 hundredths), whatever the raw Rating was.                       *)

C12_RatingAbsentOrInRange ==
    built =>
        \A i \in 1..Len(df) :
            \/ isna(df[i].Rating)
            \/ df[i].Rating.k = "num" /\ df[i].Rating.v \in 0..500

-----------------------------------------------------------------------------
(* C13: _parse_genres never raises; a list literal gives the list itself,  *)
(* in order ("['Action', 'RPG']" gives Action, RPG); an absent value, a    *)
(* text that is no literal ("not a list") and a literal that is not a list *)
(* (a string, a number, a tuple) give the empty list.                      *)

Bracketed(text) ==
    LET t == strip(text)
    IN  t # <<>> /\ Head(t) = "[" /\ t[Len(t)] = "]"

C13_ParseGenres ==
    built =>
        \A i \in 1..Len(df) :
            LET g == raw[i].Genres
                out == df[i].Genres_list
            IN  /\ ~raised
                /\ isna(g) => out = <<>>
                /\ g.k = "num" => out = <<>>
                /\ g.k = "str" =>
                    /\ \A a, b \in GenreNames :
                        /\ g.s = ListOfOne(a) => out = <<a>>
                        /\ g.s = ListOfTwo(a, b) => out = <<a, b>>
                        /\ g.s = ListOfTwoSpaced(a, b) => out = <<a, b>>
                        /\ g.s = Quoted(a) => out = <<>>
                    /\ g.s = <<"[", "]">> => out = <<>>
                    /\ g.s = <<"[", "'", "a", "'", "]">> => out = << <<"a">> >>
                    /\ g.s = NotAList => out = <<>>
                    /\ g.s = TupleOfLists => out = <<>>
                    /\ ~Bracketed(g.s) => out = <<>>

C13_Witness ==
    /\ built
    /\ Len(df) = 1
    /\ raw[1].Genres = Str(ListOfTwoSpaced(Action, RPG))
    /\ df[1].Genres_list = <<Action, RPG>>

-----------------------------------------------------------------------------
(* C14: after cleaning, every element of every Genres_list is a string,    *)
(* whatever the raw Genres was: a list literal with a number or a nested   *)
(* list in it is not taken as a genre list.                                *)

C14_GenresAreStrings ==
    built =>
        \A i \in 1..Len(df) :
            \A j \in 1..Len(df[i].Genres_list) :
                IsString(df[i].Genres_list[j])

-----------------------------------------------------------------------------
(* C15: malformed fields never abort the run.  Over a table with at least  *)
(* one record of present rating and non-empty genre list, whatever the     *)
(* other raw fields are, construction and the four analyses (the rating    *)
(* summary asked for genres among which one is of such a record) end       *)
(* without raising.                                                        *)

GoodRow(row) ==
    /\ ~isna(row.Rating)
    /\ row.Genres_list # <<>>
    /\ \A j \in 1..Len(row.Genres_list) : IsString(row.Genres_list[j])

C15_MalformedFieldsNeverAbort ==
    (/\ built
     /\ \E i \in 1..Len(df) : GoodRow(df[i])
     /\ op = "get_genre_rating_summary" =>
            \E i \in 1..Len(df) :
                GoodRow(df[i]) /\ \E j \in 1..Len(arg) : InList(arg[j], df[i].Genres_list))
        => ~raised

-----------------------------------------------------------------------------
(* C16: over a table of zero records, get_most_played_game raises and      *)
(* get_summary_statistics raises too, instead of returning statistics.     *)

C16_EmptyTableAggregatesRaise ==
    (/\ built
     /\ df = <<>>
     /\ op \in {"get_most_played_game", "get_summary_statistics"})
        => raised

-----------------------------------------------------------------------------
(* C17: for every genre g given to get_top_rated_by_genre and every n, the *)
(* games reported for g are min(n, records containing g) records, each     *)
(* containing g, in non-increasing rating order, absent ratings after      *)
(* present ones, equal ratings in row order; no record of g left out has a *)
(* higher rating than one reported.                                        *)

RowOfTitle(frame, title) == CHOOSE k \in Rows(frame) : frame[k].Title = title

Reported(g) == SelectSeq(ret, LAMBDA r : r.Genre = g)

SameRating(a, b) ==
    \/ isna(a.Rating) /\ isna(b.Rating)
    \/ ~isna(a.Rating) /\ ~isna(b.Rating) /\ a.Rating.v = b.Rating.v

HigherRating(a, b) ==
    /\ ~isna(a.Rating)
    /\ isna(b.Rating) \/ a.Rating.v > b.Rating.v

-----------------------------------------------------------------------------
(* C18: run_full_pipeline starts extract, transform/analyze and load once  *)
(* each in that order; when a phase raises, no later phase is started,     *)
(* results['execution'] holds status 'error', the error text and the       *)
(* duration, and the exception reaches the caller; when all phases         *)
(* complete the status is 'success'.  One of the two statuses is recorded  *)
(* after every call.                                                       *)

Phases == <<"extract_data", "transform_and_analyze", "load_results">>

(* the phase a call belongs to *)
PhaseOf(step) ==
    IF step = "extract_data" THEN 1
    ELSE IF step = "load_results" THEN 3
    ELSE 2

C18_PipelinePhasesAndStatus ==
    trace # <<>> =>
        /\ Len(trace) <= Len(Phases)
        /\ trace = SubSeq(Phases, 1, Len(trace))
        /\ "execution" \in DOMAIN results
        /\ results["execution"].status \in {"success", "error"}
        /\ results["execution"].duration >= 0
        /\ raised <=> results["execution"].status = "error"
        /\ raised <=> failed # "none"
        /\ raised =>
            /\ Len(trace) = PhaseOf(failed)
            /\ results["execution"].error = failed
            /\ op = failed
        /\ ~raised => trace = Phases
        /\ ~csv.found => raised /\ trace = <<"extract_data">>
        /\ (csv.found /\ csv.table = <<>>) =>
                raised /\ trace = <<"extract_data", "transform_and_analyze">>
        /\ Len(trace) >= 2 => "extraction" \in DOMAIN results
        /\ ~raised => {"analysis", "outputs"} \subseteq DOMAIN results

C18_Witness ==
    /\ trace = <<"extract_data", "transform_and_analyze">>
    /\ raised
    /\ failed = "get_genre_rating_summary"
    /\ results["execution"].status = "error"

C18_WitnessSuccess ==
    /\ trace = Phases
    /\ ~raised
    /\ results["execution"].status = "success"

-----------------------------------------------------------------------------
(* C20: once extract_data and transform_and_analyze have succeeded on a    *)
(* table with at least one genre, analyze_top_games_by_categories(k, m)    *)
(* completes and stores results['top_games_analysis'], whose top_genres    *)
(* are the first k genres of the top-20 list in order and whose            *)
(* top_games_dict has those genres as keys.                                *)

C20_TopGamesByCategoriesCompletes ==
    (/\ op = "analyze_top_games_by_categories"
     /\ "analysis" \in DOMAIN results
     /\ results["analysis"].genres_df # <<>>)
        => /\ ~raised
           /\ "top_games_analysis" \in DOMAIN results
           /\ results["top_games_analysis"].top_genres =
                Column(head(results["analysis"].genres_df, arg.top_n_genres),
                       "Genre")

-----------------------------------------------------------------------------
(* C19: main() returns 0 exactly when extraction, every analysis and the   *)
(* rendering step all completed, and 1 when one of them raised (missing    *)
(* file, empty table, a failing analysis, failing rendering); no exception *)
(* leaves main().                                                          *)

StepsOf(name) == IF name = "main" THEN MainSteps ELSE Top5Steps

C19_ExitCode ==
    code # NotReturned =>
        /\ ~raised
        /\ code \in {0, 1}
        /\ code = 0 <=> (failed = "none" /\ trace = StepsOf(op))
        /\ code = 1 <=> failed # "none"
        /\ failed # "none" =>
            /\ trace[Len(trace)] = failed
            /\ trace = StepsUpTo(StepsOf(op), failed)
        /\ ~csv.found => code = 1 /\ failed = "extract_data"
        /\ (csv.found /\ csv.table = <<>>) => code = 1
        /\ (op = "main" /\ code = 1 /\ csv.found) =>
            \/ failed = "generate_all_visualizations"
            \/ \E o \in transform_and_analyze(csv.table, <<>>) :
                    o.raised /\ o.op = failed

C19_Witness ==
    /\ op = "main"
    /\ code = 0
    /\ trace = MainSteps

-----------------------------------------------------------------------------
(* C23: get_genre_rating_summary returns without raising, and returns an   *)
(* empty result, when no genre of the given column qualifies: the column   *)
(* is empty, or every record of every given genre has an absent rating.    *)

C23_NoQualifyingGenreReturnsEmpty ==
    (/\ op = "get_genre_rating_summary"
     /\ Qualifying(df, arg) = {})
        => /\ ~raised
           /\ ret = <<>>

-----------------------------------------------------------------------------
(* C22: constructing the transformer leaves the caller's table as it was   *)
(* (cleaning works on a copy), and no call of get_most_played_game,        *)
(* get_top_genres, get_top_rated_by_genre, get_genre_rating_summary or     *)
(* get_summary_statistics changes a record of the cleaned table, in        *)
(* whatever order and however often they are called.                       *)

C22_RecordsReadOnly ==
    [][/\ raw' = raw
       /\ built => (df' = df /\ built')]_vars

(* the cleaned table has the columns the caller's table has not, and an    *)
(* analysis has returned over it                                           *)
C22_Witness ==
    /\ built
    /\ df # <<>>
    /\ "Plays_numeric" \in DOMAIN df[1]
    /\ "Plays_numeric" \notin DOMAIN raw[1]
    /\ op = "get_top_rated_by_genre"
    /\ ~raised
    /\ ret # <<>>

-----------------------------------------------------------------------------
(* C24: over every sequence of extract_data, transform_and_analyze,        *)
(* load_results, run_full_pipeline and print_results_summary calls on one  *)
(* analyzer, failing or not: results has 'analysis' whenever it has        *)
(* 'outputs' and 'extraction' whenever it has 'analysis'; a phase called   *)
(* before its predecessor has succeeded raises and adds no key; no key is  *)
(* ever removed; and print_results_summary never raises for a missing key. *)

PhaseKeysNested ==
    /\ "outputs" \in DOMAIN results => "analysis" \in DOMAIN results
    /\ "analysis" \in DOMAIN results => "extraction" \in DOMAIN results

C24_ResultsKeysNested ==
    [][/\ PhaseKeysNested'
       /\ DOMAIN results \subseteq DOMAIN results'
       /\ (AnalyzerTransformAndAnalyze /\ "extraction" \notin DOMAIN results)
            => (raised' /\ results' = results)
       /\ (LoadResults /\ "analysis" \notin DOMAIN results)
            => (raised' /\ results' = results)
       /\ PrintResultsSummary => ~raised']_vars

(* the summary printed after a whole run, and after a run that failed in   *)
(* its second phase following one phase called too early                   *)
C24_Witness ==
    /\ op = "print_results_summary"
    /\ ~raised
    /\ DOMAIN results = {"extraction", "analysis", "outputs", "execution"}
    /\ results["execution"].status = "success"

C24_WitnessFailedRun ==
    /\ op = "print_results_summary"
    /\ ~raised
    /\ DOMAIN results = {"extraction", "execution"}
    /\ results["execution"].status = "error"

-----------------------------------------------------------------------------
(* C21: the transform-and-analyze stage run twice over the same input      *)
(* rows, on two fresh analyzers or twice on one, ends the same way both    *)
(* times, with the same most played record, the same top genres (genres,   *)
(* totals and order), the same genre rating summary and the same summary   *)
(* statistics.                                                             *)

====
